---- MODULE Spec2Model ----
(***************************************************************************)
(* State-machine models of the stateful examples of notepad.py:            *)
(*   Item 54  Counter / LockingCounter driven by 5 worker threads          *)
(*   Item 52  subprocess pipelines and communicate(timeout=...)            *)
(*   Item 20  careful_divide                                               *)
(*   Item 44  Bucket / NewBucket with fill and deduct                      *)
(*   Item 38  increment_with_report / CountMissing / BetterCountMissing    *)
(*   Item 24  decode with a shared and with a None default                 *)
(*   Item 25  safe_division_c and its keyword-only arguments               *)
(*   Item 39  LineCountWorker and execute (map threads, then reduce)       *)
(* Each example is independent of the others (they share no state), so     *)
(* each has a specification of its own over its own variables; the         *)
(* variables of the other examples stay at their idle values.              *)
(***************************************************************************)
EXTENDS Integers, Sequences, FiniteSets, TLC

(***************************************************************************)
(* State                                                                   *)
(***************************************************************************)
VARIABLES
    \* Item 54 ------------------------------------------------------------
    mpc,       \* main thread: the statement it is at
    mi,        \* main thread: index of the for loop it is in
    threads,   \* the list `threads`: number of Thread objects appended
    tpc,       \* per thread: where it is in worker()/increment()
    tn,        \* per thread: iterations of `for _ in range(how_many)` done
    value,     \* per thread: the value loaded by getattr(counter, 'count')
    result,    \* per thread: value + offset, not yet stored
    counter,   \* the object bound to `counter`: [class, count, lock]
    bcount,    \* BARRIER: number of threads inside wait()
    bstate,    \* BARRIER: "filling" or "draining"
    found,     \* main thread: `found`
    expected,  \* main thread: `expected`
    \* Item 52 ------------------------------------------------------------
    ppc,       \* parent process: the statement it is at
    pk,        \* parent process: index of the for loop it is in
    pw,        \* parent process: units of `data` still to be flushed
    encrypt_procs,  \* per pair: the openssl enc child
    hash_procs,     \* per pair: the openssl dgst child
    stdinPipe, \* per pair: parent -> encrypt child
    midPipe,   \* per pair: encrypt child -> hash child
    outPipe,   \* per pair: hash child -> parent
    out,       \* per pair: units the parent has read from the hash child
    sleeper,   \* the `sleep 10` child of the timeout demo
    timer,     \* the timeout of communicate(timeout=0.1)
    returncode,\* proc.returncode of the timeout demo: <<>> is None
    \* Item 20 ------------------------------------------------------------
    dpc,       \* "input", "none_called", "called"
    da,        \* argument a
    db,        \* argument b
    dnone,     \* outcome of the None-returning careful_divide(a, b)
    dret,      \* outcome of the exception-raising careful_divide(a, b)
    \* Item 44 ------------------------------------------------------------
    now,       \* datetime.now(), in ticks
    bucket,    \* the Bucket
    newbucket, \* the NewBucket driven by the same calls
    bcall,     \* the last call made: [op, amount]
    bret,      \* what the last call did on the Bucket
    nret,      \* what the last call did on the NewBucket
    \* Item 38 ------------------------------------------------------------
    kpc,       \* which of the three loops is running
    ki,        \* increments consumed by the running loop
    current,   \* `current`
    increments,\* `increments`
    kresult,   \* the defaultdict `result` of the running loop
    added_count,     \* closure variable of increment_with_report
    counter_added,   \* CountMissing().added
    better_added,    \* BetterCountMissing().added
    \* Item 24 -------------------------------------------------------------
    gpc,       \* the statement the script is at
    gversion,  \* which definition `decode` is bound to
    gdefault,  \* the default value stored in decode.__defaults__: an object id, 0 is None
    heap,      \* the dict objects created so far, by object id
    foo,       \* the object bound to `foo`, 0 before the assignment
    bar,       \* the object bound to `bar`, 0 before the assignment
    gdata,     \* the two strings passed as `data`
    gkey,      \* the two keys written into foo and bar
    \* Item 25 -------------------------------------------------------------
    spc,       \* "input" before the call, "called" after it
    spos,      \* the positional arguments of the call
    skw,       \* the keyword arguments of the call: name -> value
    sret,      \* outcome of the call
    \* Item 39 -------------------------------------------------------------
    xpc,       \* execute: the statement the calling thread is at
    xi,        \* execute: index of the for loop it is in
    workers,   \* the list `workers`: its length
    xfile,     \* per worker: the text of the file its input_data reads
    xtpc,      \* per worker: where its map thread is
    xdata,     \* per worker: `data` of its map call, <<>> before the read
    xresult,   \* per worker: self.result, <<>> is None
    xret       \* what execute returned, <<>> before it returns

item54vars == <<mpc, mi, threads, tpc, tn, value, result, counter,
                bcount, bstate, found, expected>>
item52vars == <<ppc, pk, pw, encrypt_procs, hash_procs, stdinPipe, midPipe,
                outPipe, out, sleeper, timer, returncode>>
item20vars == <<dpc, da, db, dnone, dret>>
item44vars == <<now, bucket, newbucket, bcall, bret, nret>>
item38vars == <<kpc, ki, current, increments, kresult, added_count,
                counter_added, better_added>>
item24vars == <<gpc, gversion, gdefault, heap, foo, bar, gdata, gkey>>
item25vars == <<spc, spos, skw, sret>>
item39vars == <<xpc, xi, workers, xfile, xtpc, xdata, xresult, xret>>

vars == <<item54vars, item52vars, item20vars, item44vars, item38vars,
         item24vars,
         item25vars,
         item39vars>>

\* The variables of the other examples, for each example.
others54 == <<item52vars, item20vars, item44vars, item38vars,
              item24vars,
              item25vars,
              item39vars>>
others52 == <<item54vars, item20vars, item44vars, item38vars,
              item24vars,
              item25vars,
              item39vars>>
others20 == <<item54vars, item52vars, item44vars, item38vars,
              item24vars,
              item25vars,
              item39vars>>
others44 == <<item54vars, item52vars, item20vars, item38vars,
              item24vars,
              item25vars,
              item39vars>>
others38 == <<item54vars, item52vars, item20vars, item44vars,
              item24vars,
              item25vars,
              item39vars>>
others24 == <<item54vars, item52vars, item20vars, item44vars, item38vars,
              item25vars,
              item39vars>>
others25 == <<item54vars, item52vars, item20vars, item44vars, item38vars, item24vars,
              item39vars>>
others39 == <<item54vars, item52vars, item20vars, item44vars, item38vars, item24vars, item25vars>>

(***************************************************************************)
(* Item 54: Use Lock to Prevent Data Races in Threads                      *)
(***************************************************************************)
\* Number of readings per worker (10**5 in the script), bounded.
how_many == 1

\* Barrier(5), range(5): one worker thread per sensor.
NumWorkers == 5

\* Thread objects ever created: 5 in the Counter run and 5 more in the
\* LockingCounter run (the list `threads` is not cleared in between).
Threads == 1 .. (2 * NumWorkers)

NoThread == 0

\* Counter.__init__
NewCounter == [class |-> "Counter", count |-> 0, lock |-> NoThread]

\* LockingCounter.__init__
NewLockingCounter == [class |-> "LockingCounter", count |-> 0, lock |-> NoThread]

\* The workers of the run in progress: the last NumWorkers threads started.
RunWorkers == IF counter.class = "Counter"
              THEN 1 .. NumWorkers
              ELSE (NumWorkers + 1) .. (2 * NumWorkers)

Item54Init ==
    /\ mpc = "start"
    /\ mi = 0
    /\ threads = 0
    /\ tpc = [t \in Threads |-> "unborn"]
    /\ tn = [t \in Threads |-> 0]
    /\ value = [t \in Threads |-> 0]
    /\ result = [t \in Threads |-> 0]
    /\ counter = NewCounter
    /\ bcount = 0
    /\ bstate = "filling"
    /\ found = -1
    /\ expected = -1

\* for i in range(5): thread = Thread(...); threads.append(thread); thread.start()
StartThread ==
    /\ mpc = "start"
    /\ mi < NumWorkers
    /\ threads' = threads + 1
    /\ tpc' = [tpc EXCEPT ![threads + 1] = "barrier"]
    /\ mi' = mi + 1
    /\ UNCHANGED others54
    /\ UNCHANGED <<mpc, tn, value, result, counter, bcount, bstate,
                   found, expected>>

\* The start loop is over; the join loop begins.
StartDone ==
    /\ mpc = "start"
    /\ mi = NumWorkers
    /\ mpc' = "join"
    /\ mi' = 0
    /\ UNCHANGED others54
    /\ UNCHANGED <<threads, tpc, tn, value, result, counter, bcount, bstate, found, expected>>

\* for thread in threads: thread.join()   (blocks until that thread is over)
JoinThread ==
    /\ mpc = "join"
    /\ mi < threads
    /\ tpc[mi + 1] = "done"
    /\ mi' = mi + 1
    /\ UNCHANGED others54
    /\ UNCHANGED <<mpc, threads, tpc, tn, value, result, counter, bcount,
                   bstate, found, expected>>

\* expected = how_many * 5; found = counter.count; print(...)
ReadFound ==
    /\ mpc = "join"
    /\ mi = threads
    /\ expected' = how_many * 5
    /\ found' = counter.count
    /\ mpc' = IF counter.class = "Counter" THEN "augmented" ELSE "end"
    /\ UNCHANGED others54
    /\ UNCHANGED <<mi, threads, tpc, tn, value, result, counter, bcount,
                   bstate>>

\* for _ in range(how_many): counter.increment(1)  -- where a worker that has
\* done n iterations goes next: out of the loop, or into increment.
\* Counter.increment goes straight to the load; LockingCounter.increment
\* first has to enter `with self.lock`.
LoopPc(n, c) ==
    IF n = how_many THEN "done"
    ELSE IF c.class = "LockingCounter" THEN "acquire"
    ELSE "read"

\* BARRIER.wait(), arriving: the last of the parties releases all of them.
BarrierArrive(t) ==
    /\ tpc[t] = "barrier"
    /\ bstate = "filling"
    /\ bcount' = bcount + 1
    /\ bstate' = IF bcount + 1 = NumWorkers THEN "draining" ELSE "filling"
    /\ tpc' = [tpc EXCEPT ![t] = "waiting"]
    /\ UNCHANGED others54
    /\ UNCHANGED <<mpc, mi, threads, tn, value, result, counter, found, expected>>

\* Mutant of BarrierLeave: a wait() that returns without waiting for the
\* other parties.
BarrierLeaveAtOnce(t) ==
    /\ tpc[t] = "waiting"
    /\ bcount' = bcount - 1
    /\ bstate' = IF bcount - 1 = 0 THEN "filling" ELSE bstate
    /\ tpc' = [tpc EXCEPT ![t] = LoopPc(tn[t], counter)]
    /\ UNCHANGED others54
    /\ UNCHANGED <<mpc, mi, threads, tn, value, result, counter,
                   found, expected>>

\* BARRIER.wait(), leaving: only once the barrier is draining.
BarrierLeave(t) ==
    /\ tpc[t] = "waiting"
    /\ bstate = "draining"
    /\ bcount' = bcount - 1
    /\ bstate' = IF bcount - 1 = 0 THEN "filling" ELSE "draining"
    /\ tpc' = [tpc EXCEPT ![t] = LoopPc(tn[t], counter)]
    /\ UNCHANGED others54
    /\ UNCHANGED <<mpc, mi, threads, tn, value, result, counter,
                   found, expected>>

\* Mutant of Acquire: a lock that is handed out while another thread holds it.
AcquireWithoutWaiting(t) ==
    /\ tpc[t] = "acquire"
    /\ counter' = [counter EXCEPT !.lock = t]
    /\ tpc' = [tpc EXCEPT ![t] = "read"]
    /\ UNCHANGED others54
    /\ UNCHANGED <<mpc, mi, threads, tn, value, result, bcount, bstate,
                   found, expected>>

\* with self.lock:  __enter__ (blocks while another thread holds the lock)
Acquire(t) ==
    /\ tpc[t] = "acquire"
    /\ counter.lock = NoThread
    /\ counter' = [counter EXCEPT !.lock = t]
    /\ tpc' = [tpc EXCEPT ![t] = "read"]
    /\ UNCHANGED others54
    /\ UNCHANGED <<mpc, mi, threads, tn, value, result, bcount, bstate,
                   found, expected>>

\* value = getattr(counter, 'count')
Load(c) == c.count

\* result = value + offset
Add(v, offset) == v + offset

\* setattr(counter, 'count', result)
Store(c, r) == [c EXCEPT !.count = r]

\* self.count += offset, first of three operations
IncRead(t) ==
    /\ tpc[t] = "read"
    /\ value' = [value EXCEPT ![t] = Load(counter)]
    /\ tpc' = [tpc EXCEPT ![t] = "add"]
    /\ UNCHANGED others54
    /\ UNCHANGED <<mpc, mi, threads, tn, result, counter, bcount, bstate, found, expected>>

\* self.count += offset, second of three operations (offset is 1)
IncAdd(t) ==
    /\ tpc[t] = "add"
    /\ result' = [result EXCEPT ![t] = Add(value[t], 1)]
    /\ value' = [value EXCEPT ![t] = 0]
    /\ tpc' = [tpc EXCEPT ![t] = "write"]
    /\ UNCHANGED others54
    /\ UNCHANGED <<mpc, mi, threads, tn, counter, bcount, bstate,
                   found, expected>>

\* self.count += offset, third of three operations; Counter.increment
\* returns after it, LockingCounter.increment still has to leave the with.
IncWrite(t) ==
    /\ tpc[t] = "write"
    /\ counter' = Store(counter, result[t])
    /\ result' = [result EXCEPT ![t] = 0]
    /\ IF counter.class = "LockingCounter"
       THEN /\ tpc' = [tpc EXCEPT ![t] = "release"]
            /\ tn' = tn
       ELSE /\ tpc' = [tpc EXCEPT ![t] = LoopPc(tn[t] + 1, counter)]
            /\ tn' = [tn EXCEPT ![t] = tn[t] + 1]
    /\ UNCHANGED others54
    /\ UNCHANGED <<mpc, mi, threads, value, bcount, bstate, found,
                   expected>>

\* Mutant of Unlocked: an __exit__ that forgets to release.
StillLocked(c) == c

\* The lock as left by __exit__ of `with self.lock`.
Unlocked(c) == [c EXCEPT !.lock = NoThread]

\* with self.lock:  __exit__, and increment returns
Release(t) ==
    /\ tpc[t] = "release"
    /\ counter' = Unlocked(counter)
    /\ tpc' = [tpc EXCEPT ![t] = LoopPc(tn[t] + 1, counter)]
    /\ tn' = [tn EXCEPT ![t] = tn[t] + 1]
    /\ UNCHANGED others54
    /\ UNCHANGED <<mpc, mi, threads, value, result, bcount, bstate,
                   found, expected>>

\* counter.count += 1, run by the main thread alone
MainAugmented ==
    /\ mpc = "augmented"
    /\ counter' = Store(counter, Add(Load(counter), 1))
    /\ mpc' = "three_ops"
    /\ UNCHANGED others54
    /\ UNCHANGED <<mi, threads, tpc, tn, value, result, bcount, bstate,
                   found, expected>>

\* value = getattr(...); result = value + 1; setattr(...)
MainThreeOps ==
    /\ mpc = "three_ops"
    /\ counter' = Store(counter, Add(Load(counter), 1))
    /\ mpc' = "illustration"
    /\ UNCHANGED others54
    /\ UNCHANGED <<mi, threads, tpc, tn, value, result, bcount, bstate,
                   found, expected>>

\* Mutant of Interleaved: Thread A runs its three operations only after
\* Thread B has stored, so no update is lost.
InterleavedSerially(c) ==
    LET value_b  == Load(c)
        result_b == Add(value_b, 1)
        c1       == Store(c, result_b)
        value_a  == Load(c1)
        result_a == Add(value_a, 1)
    IN  Store(c1, result_a)

\* The count after the hand-written interleaving of "Thread A" and
\* "Thread B": both load, B stores value_b + 1, then A stores value_a + 1.
Interleaved(c) ==
    LET value_a  == Load(c)
        value_b  == Load(c)
        result_b == Add(value_b, 1)
        c1       == Store(c, result_b)
        result_a == Add(value_a, 1)
    IN  Store(c1, result_a)

MainIllustration ==
    /\ mpc = "illustration"
    /\ counter' = Interleaved(counter)
    /\ mpc' = "rebind"
    /\ UNCHANGED others54
    /\ UNCHANGED <<mi, threads, tpc, tn, value, result, bcount, bstate,
                   found, expected>>

\* BARRIER = Barrier(5); counter = LockingCounter()
Rebind ==
    /\ mpc = "rebind"
    /\ bcount' = 0
    /\ bstate' = "filling"
    /\ counter' = NewLockingCounter
    /\ mpc' = "start"
    /\ mi' = 0
    /\ UNCHANGED others54
    /\ UNCHANGED <<threads, tpc, tn, value, result, found, expected>>

WorkerStep(t) ==
    \/ BarrierArrive(t)
    \/ BarrierLeave(t)
    \/ Acquire(t)
    \/ IncRead(t)
    \/ IncAdd(t)
    \/ IncWrite(t)
    \/ Release(t)

Item54Next ==
    \/ StartThread
    \/ StartDone
    \/ JoinThread
    \/ ReadFound
    \/ MainAugmented
    \/ MainThreeOps
    \/ MainIllustration
    \/ Rebind
    \/ \E t \in Threads : WorkerStep(t)

(***************************************************************************)
(* Item 20: Prefer Raising Exceptions to Returning None                    *)
(***************************************************************************)

\* Arguments tried: the integers -MaxArg .. MaxArg.
MaxArg == 5

Args == (-MaxArg) .. MaxArg

Abs(x) == IF x < 0 THEN -x ELSE x

RECURSIVE Gcd(_, _)
Gcd(x, y) == IF y = 0 THEN x ELSE Gcd(y, x % y)

\* The Python value None.
None == [type |-> "NoneType", num |-> 0, den |-> 1]

\* The float a / b for b # 0, kept as the fraction in lowest terms with a
\* positive denominator (0 / b is 0/1).
Quotient(a, b) ==
    LET g == Gcd(Abs(a), Abs(b))
        s == IF b < 0 THEN -1 ELSE 1
    IN  [type |-> "float", num |-> (s * a) \div g, den |-> (s * b) \div g]

\* A call that returned v / a call that raised exc(msg).
Return(v) == [kind |-> "return", value |-> v, exc |-> "", msg |-> ""]
Raise(exc, msg) == [kind |-> "raise", value |-> None, exc |-> exc, msg |-> msg]

\* The expression a / b: ZeroDivisionError for b == 0.
TrueDiv(a, b) ==
    IF b = 0 THEN Raise("ZeroDivisionError", "division by zero")
    ELSE Return(Quotient(a, b))

\* def careful_divide(a, b): try: return a / b
\*                           except ZeroDivisionError: return None
careful_divide_none(a, b) ==
    LET r == TrueDiv(a, b)
    IN  IF r.kind = "raise" /\ r.exc = "ZeroDivisionError"
        THEN Return(None)
        ELSE r

\* Mutant of careful_divide: the except clause of the first definition.
careful_divide_returning_none(a, b) == careful_divide_none(a, b)

\* def careful_divide(a, b): try: return a / b
\*                           except ZeroDivisionError as e:
\*                               raise ValueError('Invalid inputs')
careful_divide(a, b) ==
    LET r == TrueDiv(a, b)
    IN  IF r.kind = "raise" /\ r.exc = "ZeroDivisionError"
        THEN Raise("ValueError", "Invalid inputs")
        ELSE r

\* `not result`, the test the caller of the None version makes.
Not(v) == v.type = "NoneType" \/ v.num = 0

\* No call made yet.
NoOutcome == [kind |-> "none", value |-> None, exc |-> "", msg |-> ""]

Item20Idle ==
    /\ dpc = "idle"
    /\ da = 0
    /\ db = 0
    /\ dnone = NoOutcome
    /\ dret = NoOutcome

Item20Init ==
    /\ dpc = "input"
    /\ da \in Args
    /\ db \in Args
    /\ dnone = NoOutcome
    /\ dret = NoOutcome

\* result = careful_divide(x, y) with the None-returning definition
CallNoneVersion ==
    /\ dpc = "input"
    /\ dnone' = careful_divide_none(da, db)
    /\ dpc' = "none_called"
    /\ UNCHANGED others20
    /\ UNCHANGED <<da, db, dret>>

\* result = careful_divide(x, y) with the exception-raising definition
CallRaisingVersion ==
    /\ dpc = "none_called"
    /\ dret' = careful_divide(da, db)
    /\ dpc' = "called"
    /\ UNCHANGED others20
    /\ UNCHANGED <<da, db, dnone>>

Item20Next ==
    \/ CallNoneVersion
    \/ CallRaisingVersion

(***************************************************************************)
(* Item 44: Use Plain Attributes Instead of Setter and Getter Methods      *)
(***************************************************************************)

\* Bucket(period): the period, in ticks of the clock.
Period == 2

\* The clock runs from 0 (construction of the buckets) to MaxTime.
MaxTime == 4

\* fill and deduct are called with amounts 1 .. MaxAmount.
MaxAmount == 3

\* Calls that would take a quota above MaxQuota are not made.
MaxQuota == 6

Amounts == 1 .. MaxAmount

\* Bucket.__init__(period) at time t
NewBucketObj(t) ==
    [class |-> "Bucket", period_delta |-> Period, reset_time |-> t,
     quota |-> 0, max_quota |-> 0, quota_consumed |-> 0]

\* NewBucket.__init__(period) at time t
NewNewBucketObj(t) ==
    [class |-> "NewBucket", period_delta |-> Period, reset_time |-> t,
     quota |-> 0, max_quota |-> 0, quota_consumed |-> 0]

\* bucket.quota: the attribute of a Bucket, the @property of a NewBucket
GetQuota(b) ==
    IF b.class = "Bucket" THEN b.quota
    ELSE b.max_quota - b.quota_consumed

\* The outcome of an assignment or call on a bucket: the bucket as it is
\* left, the value returned and the exception raised ("" for none).
Outcome(b, ret, exc) == [b |-> b, ret |-> ret, exc |-> exc]

\* @quota.setter of NewBucket
NewBucketSetQuota(b, amount) ==
    LET delta == b.max_quota - amount
    IN  IF amount = 0
        THEN Outcome([b EXCEPT !.quota_consumed = 0, !.max_quota = 0], "None", "")
        ELSE IF delta < 0
        THEN IF b.quota_consumed = 0
             THEN Outcome([b EXCEPT !.max_quota = amount], "None", "")
             ELSE Outcome(b, "None", "AssertionError: quota_consumed == 0")
        ELSE IF b.max_quota >= b.quota_consumed
             THEN Outcome([b EXCEPT !.quota_consumed = @ + delta], "None", "")
             ELSE Outcome(b, "None", "AssertionError: max_quota >= quota_consumed")

\* bucket.quota = amount
SetQuota(b, amount) ==
    IF b.class = "Bucket"
    THEN Outcome([b EXCEPT !.quota = amount], "None", "")
    ELSE NewBucketSetQuota(b, amount)

\* (now - bucket.reset_time) > bucket.period_delta
Expired(b, t) == (t - b.reset_time) > b.period_delta

\* Variant of fill that keeps the quota of the period that is over.
fill_carrying_over(b, amount, t) ==
    LET b1 == IF Expired(b, t) THEN [b EXCEPT !.reset_time = t] ELSE b
    IN  SetQuota(b1, GetQuota(b1) + amount)

\* def fill(bucket, amount), called at time t
fill(b, amount, t) ==
    LET b1 == IF Expired(b, t)
              THEN [SetQuota(b, 0).b EXCEPT !.reset_time = t]
              ELSE b
    IN  SetQuota(b1, GetQuota(b1) + amount)

\* Variant of deduct that empties the bucket when the quota does not cover
\* the amount.
deduct_emptying(b, amount, t) ==
    IF Expired(b, t) THEN Outcome(b, "False", "")
    ELSE IF GetQuota(b) - amount < 0 THEN Outcome(SetQuota(b, 0).b, "False", "")
    ELSE LET o == SetQuota(b, GetQuota(b) - amount)
         IN  IF o.exc = "" THEN Outcome(o.b, "True", "") ELSE o

\* Variant of deduct without the test of the quota.
deduct_unchecked(b, amount, t) ==
    IF Expired(b, t) THEN Outcome(b, "False", "")
    ELSE LET o == SetQuota(b, GetQuota(b) - amount)
         IN  IF o.exc = "" THEN Outcome(o.b, "True", "") ELSE o

\* def deduct(bucket, amount), called at time t
deduct(b, amount, t) ==
    IF Expired(b, t) THEN Outcome(b, "False", "")
    ELSE IF GetQuota(b) - amount < 0 THEN Outcome(b, "False", "")
    ELSE LET o == SetQuota(b, GetQuota(b) - amount)
         IN  IF o.exc = "" THEN Outcome(o.b, "True", "") ELSE o

NoCall == [op |-> "none", amount |-> 0]
NoReturn == [ret |-> "None", exc |-> ""]

Item44Idle ==
    /\ now = 0
    /\ bucket = NewBucketObj(0)
    /\ newbucket = NewNewBucketObj(0)
    /\ bcall = NoCall
    /\ bret = NoReturn
    /\ nret = NoReturn

\* bucket = Bucket(60) and bucket = NewBucket(60), both at time 0
Item44Init == Item44Idle

\* An uncaught AssertionError ends the script.
Running44 == bret.exc = "" /\ nret.exc = ""

\* Time passes between two calls.
Tick ==
    /\ Running44
    /\ now < MaxTime
    /\ now' = now + 1
    /\ UNCHANGED others44
    /\ UNCHANGED <<bucket, newbucket, bcall, bret, nret>>

\* fill(bucket, amount) on the Bucket and on the NewBucket
Fill(amount) ==
    /\ Running44
    /\ GetQuota(fill(bucket, amount, now).b) <= MaxQuota
    /\ LET o == fill(bucket, amount, now)
           n == fill(newbucket, amount, now)
       IN  /\ bucket' = o.b
           /\ bret' = [ret |-> o.ret, exc |-> o.exc]
           /\ newbucket' = n.b
           /\ nret' = [ret |-> n.ret, exc |-> n.exc]
    /\ bcall' = [op |-> "fill", amount |-> amount]
    /\ UNCHANGED others44
    /\ UNCHANGED now

\* deduct(bucket, amount) on the Bucket and on the NewBucket
Deduct(amount) ==
    /\ Running44
    /\ LET o == deduct(bucket, amount, now)
           n == deduct(newbucket, amount, now)
       IN  /\ bucket' = o.b
           /\ bret' = [ret |-> o.ret, exc |-> o.exc]
           /\ newbucket' = n.b
           /\ nret' = [ret |-> n.ret, exc |-> n.exc]
    /\ bcall' = [op |-> "deduct", amount |-> amount]
    /\ UNCHANGED others44
    /\ UNCHANGED now

Item44Next ==
    \/ Tick
    \/ \E amount \in Amounts : Fill(amount)
    \/ \E amount \in Amounts : Deduct(amount)

\* The Bucket alone: fill and deduct are called with amounts
\* 0 .. MaxAmount, at any time.
BucketAmounts == 0 .. MaxAmount

\* Time passes between two calls.
BucketTick ==
    /\ now < MaxTime
    /\ now' = now + 1
    /\ UNCHANGED others44
    /\ UNCHANGED <<bucket, newbucket, bcall, bret, nret>>

\* fill(bucket, amount)
BucketFill(amount) ==
    /\ GetQuota(fill(bucket, amount, now).b) <= MaxQuota
    /\ LET o == fill(bucket, amount, now)
       IN  /\ bucket' = o.b
           /\ bret' = [ret |-> o.ret, exc |-> o.exc]
    /\ bcall' = [op |-> "fill", amount |-> amount]
    /\ UNCHANGED others44
    /\ UNCHANGED <<now, newbucket, nret>>

\* deduct(bucket, amount)
BucketDeduct(amount) ==
    /\ LET o == deduct(bucket, amount, now)
       IN  /\ bucket' = o.b
           /\ bret' = [ret |-> o.ret, exc |-> o.exc]
    /\ bcall' = [op |-> "deduct", amount |-> amount]
    /\ UNCHANGED others44
    /\ UNCHANGED <<now, newbucket, nret>>

BucketNext ==
    \/ BucketTick
    \/ \E amount \in BucketAmounts : BucketFill(amount)
    \/ \E amount \in BucketAmounts : BucketDeduct(amount)

(***************************************************************************)
(* Item 38: Accept Functions Instead of Classes for Simple Interfaces      *)
(***************************************************************************)

\* `increments` holds at most MaxIncrements pairs.
MaxIncrements == 3

\* Amounts of the increments: 1 .. MaxIncrement.
MaxIncrement == 1

Keys == {"red", "blue", "orange"}

\* The values `current` starts with.
CurrentValues == {3}

\* dict.__setitem__
SetItem(d, key, v) ==
    [x \in (DOMAIN d) \cup {key} |-> IF x = key THEN v ELSE d[x]]

\* The default_factory hooks: each returns [value, added], the value for
\* the missing key and the count after the call.

\* def missing(): nonlocal added_count; added_count += 1; return 0
missing(added) == [value |-> 0, added |-> added + 1]

\* CountMissing.missing: self.added += 1; return 0
CountMissing_missing(added) == [value |-> 0, added |-> added + 1]

\* BetterCountMissing.__call__: self.added += 1; return 0
BetterCountMissing_call(added) == [value |-> 0, added |-> added + 1]

\* Mutant of DefaultGetItem: the hook is called for every key looked up,
\* and its value stored only for a missing one.
DefaultGetItemCountingAll(d, key, added, h) ==
    IF key \in DOMAIN d
    THEN [d |-> d, value |-> d[key], added |-> h.added]
    ELSE [d |-> SetItem(d, key, h.value), value |-> h.value, added |-> h.added]

\* defaultdict.__getitem__ with the hook's outcome h: a missing key calls
\* the hook and stores what it returns. [d, value, added]
DefaultGetItem(d, key, added, h) ==
    IF key \in DOMAIN d
    THEN [d |-> d, value |-> d[key], added |-> added]
    ELSE [d |-> SetItem(d, key, h.value), value |-> h.value, added |-> h.added]

\* result[key] += amount on a defaultdict: __getitem__, +, __setitem__
AugAssign(d, key, amount, added, h) ==
    LET g == DefaultGetItem(d, key, added, h)
    IN  [d |-> SetItem(g.d, key, g.value + amount), added |-> g.added]

\* The whole of `for key, amount in increments: result[key] += amount`
\* is run one iteration per step; the pair the running loop is at:
KeyAt(i) == increments[i][1]
AmountAt(i) == increments[i][2]

EmptyDict == [x \in {} |-> 0]

Item38Idle ==
    /\ kpc = "idle"
    /\ ki = 0
    /\ current = EmptyDict
    /\ increments = <<>>
    /\ kresult = EmptyDict
    /\ added_count = 0
    /\ counter_added = 0
    /\ better_added = 0

\* Sequences over S of length at most n.
SeqsUpTo(S, n) == UNION {[1 .. m -> S] : m \in 0 .. n}

\* increment_with_report(current, increments) is entered: added_count = 0,
\* result = defaultdict(missing, current).
Item38Init ==
    /\ kpc = "increment_with_report"
    /\ ki = 0
    /\ \E D \in SUBSET Keys : current \in [D -> CurrentValues]
    /\ increments \in SeqsUpTo(Keys \X (1 .. MaxIncrement), MaxIncrements)
    /\ kresult = current
    /\ added_count = 0
    /\ counter_added = 0
    /\ better_added = 0

\* One iteration of the loop of increment_with_report
ReportStep ==
    /\ kpc = "increment_with_report"
    /\ ki < Len(increments)
    /\ LET r == AugAssign(kresult, KeyAt(ki + 1), AmountAt(ki + 1),
                          added_count, missing(added_count))
       IN  /\ kresult' = r.d
           /\ added_count' = r.added
    /\ ki' = ki + 1
    /\ UNCHANGED others38
    /\ UNCHANGED <<kpc, current, increments, counter_added, better_added>>

\* return result, added_count; then counter = CountMissing();
\* result = defaultdict(counter.missing, current)
ReportReturn ==
    /\ kpc = "increment_with_report"
    /\ ki = Len(increments)
    /\ kpc' = "CountMissing"
    /\ ki' = 0
    /\ kresult' = current
    /\ counter_added' = 0
    /\ UNCHANGED others38
    /\ UNCHANGED <<current, increments, added_count, better_added>>

\* One iteration of the loop over a defaultdict(counter.missing, current)
CountMissingStep ==
    /\ kpc = "CountMissing"
    /\ ki < Len(increments)
    /\ LET r == AugAssign(kresult, KeyAt(ki + 1), AmountAt(ki + 1),
                          counter_added, CountMissing_missing(counter_added))
       IN  /\ kresult' = r.d
           /\ counter_added' = r.added
    /\ ki' = ki + 1
    /\ UNCHANGED others38
    /\ UNCHANGED <<kpc, current, increments, added_count, better_added>>

\* The loop is over; counter = BetterCountMissing();
\* result = defaultdict(counter, current)
CountMissingDone ==
    /\ kpc = "CountMissing"
    /\ ki = Len(increments)
    /\ kpc' = "BetterCountMissing"
    /\ ki' = 0
    /\ kresult' = current
    /\ better_added' = 0
    /\ UNCHANGED others38
    /\ UNCHANGED <<current, increments, added_count, counter_added>>

\* One iteration of the loop over a defaultdict(counter, current)
BetterStep ==
    /\ kpc = "BetterCountMissing"
    /\ ki < Len(increments)
    /\ LET r == AugAssign(kresult, KeyAt(ki + 1), AmountAt(ki + 1),
                          better_added, BetterCountMissing_call(better_added))
       IN  /\ kresult' = r.d
           /\ better_added' = r.added
    /\ ki' = ki + 1
    /\ UNCHANGED others38
    /\ UNCHANGED <<kpc, current, increments, added_count, counter_added>>

\* The last loop is over.
BetterDone ==
    /\ kpc = "BetterCountMissing"
    /\ ki = Len(increments)
    /\ kpc' = "end"
    /\ UNCHANGED others38
    /\ UNCHANGED <<ki, current, increments, kresult, added_count,
                   counter_added, better_added>>

Item38Next ==
    \/ ReportStep
    \/ ReportReturn
    \/ CountMissingStep
    \/ CountMissingDone
    \/ BetterStep
    \/ BetterDone

(***************************************************************************)
(* Item 52: Use subprocess to Manage Child Processes                       *)
(* The encrypt-then-hash pipeline, then the communicate(timeout=0.1) demo. *)
(* Data moves in units; a pipe holds at most PipeCap units, a write to a   *)
(* full pipe and a read from an empty pipe with a writer left both block.  *)
(***************************************************************************)

\* for _ in range(3): one encrypt child and one hash child per turn
NumPairs == 3

\* os.urandom(100): the units of data the parent writes to each encrypt child
DataLen == 2

\* Units a pipe buffers.
PipeCap == 2

\* Units of the digest a hash child writes.
DigestLen == 1

Pairs == 1 .. NumPairs

\* SIGTERM, SIGPIPE as Popen.returncode reports them
SIGTERM == -15
SIGPIPE == -13

NoPipe == [buf |-> 0, writers |-> {}, readers |-> {}]

\* A pipe as Popen creates it, with the processes holding each end.
NewPipe(w, r) == [buf |-> 0, writers |-> {w}, readers |-> {r}]

NoChild == [st |-> "unborn", rc |-> 0, pending |-> 0, eof |-> FALSE, sigterm |-> FALSE]

\* A child process just started by Popen.
NewChild == [NoChild EXCEPT !.st = "running"]

\* A child after exit with status rc.
Exited(c, rc) == [c EXCEPT !.st = "exited", !.rc = rc]

\* file.close() of the end that `who` holds
CloseWriter(p, who) == [p EXCEPT !.writers = @ \ {who}]
CloseReader(p, who) == [p EXCEPT !.readers = @ \ {who}]

\* read() would return b'': nothing buffered and no writer left
AtEOF(p) == p.buf = 0 /\ p.writers = {}

Item52Idle ==
    /\ ppc = "run_encrypt"
    /\ pk = 0
    /\ pw = 0
    /\ encrypt_procs = [k \in Pairs |-> NoChild]
    /\ hash_procs = [k \in Pairs |-> NoChild]
    /\ stdinPipe = [k \in Pairs |-> NoPipe]
    /\ midPipe = [k \in Pairs |-> NoPipe]
    /\ outPipe = [k \in Pairs |-> NoPipe]
    /\ out = [k \in Pairs |-> 0]
    /\ sleeper = NoChild
    /\ timer = "idle"
    /\ returncode = <<>>

\* encrypt_procs = []; hash_procs = []
Item52Init == Item52Idle

\* run_encrypt(data): proc = subprocess.Popen([... 'enc' ...],
\*                        stdin=subprocess.PIPE, stdout=subprocess.PIPE)
PopenEncrypt ==
    /\ ppc = "run_encrypt"
    /\ encrypt_procs' = [encrypt_procs EXCEPT ![pk + 1] = NewChild]
    /\ stdinPipe' = [stdinPipe EXCEPT ![pk + 1] = NewPipe("parent", "enc")]
    /\ midPipe' = [midPipe EXCEPT ![pk + 1] = NewPipe("enc", "parent")]
    /\ pw' = DataLen
    /\ ppc' = "write"
    /\ UNCHANGED others52
    /\ UNCHANGED <<pk, hash_procs, outPipe, out, sleeper, timer, returncode>>

\* proc.stdin.write(data); proc.stdin.flush(): one more unit reaches the
\* pipe; flush returns when all of them have.
WriteFlush ==
    /\ ppc = "write"
    /\ pw > 0
    /\ stdinPipe[pk + 1].buf < PipeCap
    /\ stdinPipe' = [stdinPipe EXCEPT ![pk + 1].buf = @ + 1]
    /\ pw' = pw - 1
    /\ ppc' = IF pw = 1 THEN "run_hash" ELSE "write"
    /\ UNCHANGED others52
    /\ UNCHANGED <<pk, encrypt_procs, hash_procs, midPipe, outPipe, out,
                   sleeper, timer, returncode>>

\* run_hash(encrypt_proc.stdout): subprocess.Popen([... 'dgst' ...],
\*                        stdin=input_stdin, stdout=subprocess.PIPE)
PopenHash ==
    /\ ppc = "run_hash"
    /\ hash_procs' = [hash_procs EXCEPT ![pk + 1] = NewChild]
    /\ midPipe' = [midPipe EXCEPT ![pk + 1].readers = @ \cup {"hash"}]
    /\ outPipe' = [outPipe EXCEPT ![pk + 1] = NewPipe("hash", "parent")]
    /\ ppc' = "close_stdout"
    /\ UNCHANGED others52
    /\ UNCHANGED <<pk, pw, encrypt_procs, stdinPipe, out, sleeper, timer,
                   returncode>>

\* encrypt_proc.stdout.close(); encrypt_proc.stdout = None; next turn
CloseStdout ==
    /\ ppc = "close_stdout"
    /\ midPipe' = [midPipe EXCEPT ![pk + 1] = CloseReader(@, "parent")]
    /\ pk' = IF pk + 1 = NumPairs THEN 0 ELSE pk + 1
    /\ ppc' = IF pk + 1 = NumPairs THEN "communicate_encrypt" ELSE "run_encrypt"
    /\ UNCHANGED others52
    /\ UNCHANGED <<pw, encrypt_procs, hash_procs, stdinPipe, outPipe, out,
                   sleeper, timer, returncode>>

\* Mutant of CommunicateStdin: waiting for the child (proc.wait()) with its
\* stdin left open.
LeaveStdinOpen(p) == p

\* What communicate() does to the stdin it was given no input for.
CommunicateStdin(p) == CloseWriter(p, "parent")

\* for proc in encrypt_procs: proc.communicate() -- stdout is None, so
\* communicate closes stdin and then waits
EncryptCommunicate ==
    /\ ppc = "communicate_encrypt"
    /\ stdinPipe' = [stdinPipe EXCEPT ![pk + 1] = CommunicateStdin(@)]
    /\ ppc' = "wait_encrypt"
    /\ UNCHANGED others52
    /\ UNCHANGED <<pk, pw, encrypt_procs, hash_procs, midPipe, outPipe, out,
                   sleeper, timer, returncode>>

\* ... proc.wait() inside communicate; assert proc.returncode == 0
EncryptWait ==
    /\ ppc = "wait_encrypt"
    /\ encrypt_procs[pk + 1].st = "exited"
    /\ IF encrypt_procs[pk + 1].rc # 0
       THEN ppc' = "AssertionError" /\ pk' = pk
       ELSE /\ pk' = IF pk + 1 = NumPairs THEN 0 ELSE pk + 1
            /\ ppc' = IF pk + 1 = NumPairs THEN "communicate_hash"
                      ELSE "communicate_encrypt"
    /\ UNCHANGED others52
    /\ UNCHANGED <<pw, encrypt_procs, hash_procs, stdinPipe, midPipe, outPipe,
                   out, sleeper, timer, returncode>>

\* for proc in hash_procs: out, _ = proc.communicate() -- stdout.read()
\* takes what the pipe holds ...
HashCommunicateRead ==
    /\ ppc = "communicate_hash"
    /\ outPipe[pk + 1].buf > 0
    /\ outPipe' = [outPipe EXCEPT ![pk + 1].buf = @ - 1]
    /\ out' = [out EXCEPT ![pk + 1] = @ + 1]
    /\ UNCHANGED others52
    /\ UNCHANGED <<ppc, pk, pw, encrypt_procs, hash_procs, stdinPipe, midPipe,
                   sleeper, timer, returncode>>

\* ... until end of file; then stdout.close()
HashCommunicateEOF ==
    /\ ppc = "communicate_hash"
    /\ AtEOF(outPipe[pk + 1])
    /\ outPipe' = [outPipe EXCEPT ![pk + 1] = CloseReader(@, "parent")]
    /\ ppc' = "wait_hash"
    /\ UNCHANGED others52
    /\ UNCHANGED <<pk, pw, encrypt_procs, hash_procs, stdinPipe, midPipe, out,
                   sleeper, timer, returncode>>

\* ... proc.wait() inside communicate; assert proc.returncode == 0
HashWait ==
    /\ ppc = "wait_hash"
    /\ hash_procs[pk + 1].st = "exited"
    /\ IF hash_procs[pk + 1].rc # 0
       THEN ppc' = "AssertionError" /\ pk' = pk
       ELSE /\ pk' = IF pk + 1 = NumPairs THEN 0 ELSE pk + 1
            /\ ppc' = IF pk + 1 = NumPairs THEN "popen_sleep"
                      ELSE "communicate_hash"
    /\ UNCHANGED others52
    /\ UNCHANGED <<pw, encrypt_procs, hash_procs, stdinPipe, midPipe, outPipe,
                   out, sleeper, timer, returncode>>

\* openssl enc: read a block of stdin
EncRead(k) ==
    /\ encrypt_procs[k].st = "running"
    /\ ~encrypt_procs[k].eof
    /\ encrypt_procs[k].pending = 0
    /\ stdinPipe[k].buf > 0
    /\ stdinPipe' = [stdinPipe EXCEPT ![k].buf = @ - 1]
    /\ encrypt_procs' = [encrypt_procs EXCEPT ![k].pending = 1]
    /\ UNCHANGED others52
    /\ UNCHANGED <<ppc, pk, pw, hash_procs, midPipe, outPipe, out, sleeper,
                   timer, returncode>>

\* openssl enc: end of stdin, the final (padded) block is still to write
EncEOF(k) ==
    /\ encrypt_procs[k].st = "running"
    /\ ~encrypt_procs[k].eof
    /\ encrypt_procs[k].pending = 0
    /\ AtEOF(stdinPipe[k])
    /\ encrypt_procs' = [encrypt_procs EXCEPT ![k].pending = 1, ![k].eof = TRUE]
    /\ UNCHANGED others52
    /\ UNCHANGED <<ppc, pk, pw, hash_procs, stdinPipe, midPipe, outPipe, out,
                   sleeper, timer, returncode>>

\* openssl enc: write the encrypted block to stdout; SIGPIPE kills the
\* child when nobody holds the read end
EncWrite(k) ==
    /\ encrypt_procs[k].st = "running"
    /\ encrypt_procs[k].pending > 0
    /\ IF midPipe[k].readers = {}
       THEN /\ encrypt_procs' = [encrypt_procs EXCEPT ![k] = Exited(@, SIGPIPE)]
            /\ midPipe' = [midPipe EXCEPT ![k] = CloseWriter(@, "enc")]
            /\ stdinPipe' = [stdinPipe EXCEPT ![k] = CloseReader(@, "enc")]
       ELSE /\ midPipe[k].buf < PipeCap
            /\ midPipe' = [midPipe EXCEPT ![k].buf = @ + 1]
            /\ encrypt_procs' = [encrypt_procs EXCEPT ![k].pending = 0]
            /\ stdinPipe' = stdinPipe
    /\ UNCHANGED others52
    /\ UNCHANGED <<ppc, pk, pw, hash_procs, outPipe, out, sleeper, timer,
                   returncode>>

\* openssl enc: all written, exit(0); its ends of the pipes close
EncExit(k) ==
    /\ encrypt_procs[k].st = "running"
    /\ encrypt_procs[k].eof
    /\ encrypt_procs[k].pending = 0
    /\ encrypt_procs' = [encrypt_procs EXCEPT ![k] = Exited(@, 0)]
    /\ midPipe' = [midPipe EXCEPT ![k] = CloseWriter(@, "enc")]
    /\ stdinPipe' = [stdinPipe EXCEPT ![k] = CloseReader(@, "enc")]
    /\ UNCHANGED others52
    /\ UNCHANGED <<ppc, pk, pw, hash_procs, outPipe, out, sleeper, timer,
                   returncode>>

\* openssl dgst: read a block of stdin into the digest
HashRead(k) ==
    /\ hash_procs[k].st = "running"
    /\ ~hash_procs[k].eof
    /\ midPipe[k].buf > 0
    /\ midPipe' = [midPipe EXCEPT ![k].buf = @ - 1]
    /\ UNCHANGED others52
    /\ UNCHANGED <<ppc, pk, pw, encrypt_procs, hash_procs, stdinPipe, outPipe,
                   out, sleeper, timer, returncode>>

\* openssl dgst: end of stdin, the digest is still to write
HashEOF(k) ==
    /\ hash_procs[k].st = "running"
    /\ ~hash_procs[k].eof
    /\ AtEOF(midPipe[k])
    /\ hash_procs' = [hash_procs EXCEPT ![k].pending = DigestLen, ![k].eof = TRUE]
    /\ UNCHANGED others52
    /\ UNCHANGED <<ppc, pk, pw, encrypt_procs, stdinPipe, midPipe, outPipe,
                   out, sleeper, timer, returncode>>

\* openssl dgst: write the digest to stdout
HashWrite(k) ==
    /\ hash_procs[k].st = "running"
    /\ hash_procs[k].pending > 0
    /\ IF outPipe[k].readers = {}
       THEN /\ hash_procs' = [hash_procs EXCEPT ![k] = Exited(@, SIGPIPE)]
            /\ outPipe' = [outPipe EXCEPT ![k] = CloseWriter(@, "hash")]
            /\ midPipe' = [midPipe EXCEPT ![k] = CloseReader(@, "hash")]
       ELSE /\ outPipe[k].buf < PipeCap
            /\ outPipe' = [outPipe EXCEPT ![k].buf = @ + 1]
            /\ hash_procs' = [hash_procs EXCEPT ![k].pending = @ - 1]
            /\ midPipe' = midPipe
    /\ UNCHANGED others52
    /\ UNCHANGED <<ppc, pk, pw, encrypt_procs, stdinPipe, out, sleeper, timer,
                   returncode>>

\* openssl dgst: all written, exit(0); its ends of the pipes close
HashExit(k) ==
    /\ hash_procs[k].st = "running"
    /\ hash_procs[k].eof
    /\ hash_procs[k].pending = 0
    /\ hash_procs' = [hash_procs EXCEPT ![k] = Exited(@, 0)]
    /\ outPipe' = [outPipe EXCEPT ![k] = CloseWriter(@, "hash")]
    /\ midPipe' = [midPipe EXCEPT ![k] = CloseReader(@, "hash")]
    /\ UNCHANGED others52
    /\ UNCHANGED <<ppc, pk, pw, encrypt_procs, stdinPipe, out, sleeper, timer,
                   returncode>>

\* proc = subprocess.Popen(['sleep', '10'], shell=True); then
\* proc.communicate(timeout=0.1) starts its clock
PopenSleep ==
    /\ ppc = "popen_sleep"
    /\ sleeper' = NewChild
    /\ timer' = "armed"
    /\ ppc' = "communicate"
    /\ UNCHANGED others52
    /\ UNCHANGED <<pk, pw, encrypt_procs, hash_procs, stdinPipe, midPipe,
                   outPipe, out, returncode>>

\* The child ends by itself (the sleep is over, or the shell found nothing
\* to run); a hanging child never takes this step.
SleeperExits ==
    /\ sleeper.st = "running"
    /\ sleeper' = Exited(sleeper, 0)
    /\ UNCHANGED others52
    /\ UNCHANGED <<ppc, pk, pw, encrypt_procs, hash_procs, stdinPipe, midPipe,
                   outPipe, out, timer, returncode>>

\* The kernel delivers SIGTERM: the child dies of it.
SleeperKilled ==
    /\ sleeper.st = "running"
    /\ sleeper.sigterm
    /\ sleeper' = Exited(sleeper, SIGTERM)
    /\ UNCHANGED others52
    /\ UNCHANGED <<ppc, pk, pw, encrypt_procs, hash_procs, stdinPipe, midPipe,
                   outPipe, out, timer, returncode>>

\* 0.1 seconds have passed inside communicate.
TimerExpires ==
    /\ ppc = "communicate"
    /\ timer = "armed"
    /\ timer' = "expired"
    /\ UNCHANGED others52
    /\ UNCHANGED <<ppc, pk, pw, encrypt_procs, hash_procs, stdinPipe, midPipe,
                   outPipe, out, sleeper, returncode>>

\* proc.communicate(timeout=0.1) finds the child over and returns
CommunicateReturns ==
    /\ ppc = "communicate"
    /\ sleeper.st = "exited"
    /\ returncode' = <<sleeper.rc>>
    /\ timer' = "idle"
    /\ ppc' = "poll"
    /\ UNCHANGED others52
    /\ UNCHANGED <<pk, pw, encrypt_procs, hash_procs, stdinPipe, midPipe,
                   outPipe, out, sleeper>>

\* proc.communicate(timeout=0.1) finds the child running with the time
\* up: raise TimeoutExpired, caught by the except clause
CommunicateTimeout ==
    /\ ppc = "communicate"
    /\ sleeper.st = "running"
    /\ timer = "expired"
    /\ ppc' = "terminate"
    /\ UNCHANGED others52
    /\ UNCHANGED <<pk, pw, encrypt_procs, hash_procs, stdinPipe, midPipe,
                   outPipe, out, sleeper, timer, returncode>>

\* Mutant of SendSigterm: an except clause that only waits.
SendNothing(c) == c

\* The signal proc.terminate() sends to a child that is still there.
SendSigterm(c) == [c EXCEPT !.sigterm = TRUE]

\* proc.terminate(): poll() first, SIGTERM only to a child not yet reaped
Terminate ==
    /\ ppc = "terminate"
    /\ IF sleeper.st = "exited"
       THEN returncode' = <<sleeper.rc>> /\ sleeper' = sleeper
       ELSE returncode' = returncode /\ sleeper' = SendSigterm(sleeper)
    /\ ppc' = "wait"
    /\ UNCHANGED others52
    /\ UNCHANGED <<pk, pw, encrypt_procs, hash_procs, stdinPipe, midPipe,
                   outPipe, out, timer>>

\* proc.wait(): blocks until the child is over
Wait ==
    /\ ppc = "wait"
    /\ sleeper.st = "exited"
    /\ returncode' = <<sleeper.rc>>
    /\ ppc' = "poll"
    /\ UNCHANGED others52
    /\ UNCHANGED <<pk, pw, encrypt_procs, hash_procs, stdinPipe, midPipe,
                   outPipe, out, sleeper, timer>>

\* print('Exit status', proc.poll())
Poll ==
    /\ ppc = "poll"
    /\ returncode' = IF sleeper.st = "exited" THEN <<sleeper.rc>> ELSE returncode
    /\ ppc' = "end"
    /\ UNCHANGED others52
    /\ UNCHANGED <<pk, pw, encrypt_procs, hash_procs, stdinPipe, midPipe,
                   outPipe, out, sleeper, timer>>

ParentStep ==
    \/ PopenEncrypt
    \/ WriteFlush
    \/ PopenHash
    \/ CloseStdout
    \/ EncryptCommunicate
    \/ EncryptWait
    \/ HashCommunicateRead
    \/ HashCommunicateEOF
    \/ HashWait
    \/ PopenSleep
    \/ CommunicateReturns
    \/ CommunicateTimeout
    \/ Terminate
    \/ Wait
    \/ Poll

EncStep(k) == EncRead(k) \/ EncEOF(k) \/ EncWrite(k) \/ EncExit(k)

HashStep(k) == HashRead(k) \/ HashEOF(k) \/ HashWrite(k) \/ HashExit(k)

Item52Next ==
    \/ ParentStep
    \/ \E k \in Pairs : EncStep(k)
    \/ \E k \in Pairs : HashStep(k)
    \/ SleeperExits
    \/ SleeperKilled
    \/ TimerExpires

\* The operating system runs every process that can run, delivers signals
\* and lets time pass; nothing makes a hanging child end by itself.
Item52Fairness ==
    /\ WF_vars(ParentStep)
    /\ \A k \in Pairs : WF_vars(EncStep(k)) /\ WF_vars(HashStep(k))
    /\ WF_vars(SleeperKilled)
    /\ WF_vars(TimerExpires)

(***************************************************************************)
(* Item 24: Use None and Docstrings to Specify Dynamic Default Arguments   *)
(***************************************************************************)
\* The strings passed as `data`: two that are not JSON, and the JSON text
\* of an empty object.
Datas == {"bad data", "also bad", "{}"}

\* The keys the script writes into foo and bar.
DecodeKeys == {"stuff", "meep"}

\* The object id standing for None (object ids of dicts start at 1).
NoneId == 0

\* json.loads(data): a JSON object text gives the dict it denotes, a
\* string that is not JSON raises ValueError.
json_loads(data) ==
    IF data = "{}" THEN [ok |-> TRUE, value |-> EmptyDict]
    ELSE [ok |-> FALSE, value |-> EmptyDict]

\* A dict comes into being (a `{}` display is evaluated, json.loads builds
\* its result): a new object with an id of its own.
NewDict(h, d) == [heap |-> Append(h, d), ret |-> Len(h) + 1]

\* def decode(data, default={}): try: return json.loads(data)
\*                               except ValueError: return default
decode_shared_default(h, data, default) ==
    LET r == json_loads(data)
    IN  IF r.ok THEN NewDict(h, r.value)
        ELSE [heap |-> h, ret |-> default]

\* Variant of decode whose `{}` gives back the dict made last, not a new one.
decode_reusing_dict(h, data, default) ==
    LET r == json_loads(data)
    IN  IF r.ok THEN NewDict(h, r.value)
        ELSE IF default = NoneId
             THEN IF Len(h) > 0 THEN [heap |-> h, ret |-> Len(h)]
                  ELSE NewDict(h, EmptyDict)
             ELSE [heap |-> h, ret |-> default]

\* def decode(data, default=None): try: return json.loads(data)
\*     except ValueError: if default is None: default = {}
\*                        return default
decode(h, data, default) ==
    LET r == json_loads(data)
    IN  IF r.ok THEN NewDict(h, r.value)
        ELSE IF default = NoneId
             THEN NewDict(h, EmptyDict)
             ELSE [heap |-> h, ret |-> default]

Item24Idle ==
    /\ gpc = "idle"
    /\ gversion = "unbound"
    /\ gdefault = NoneId
    /\ heap = <<>>
    /\ foo = NoneId
    /\ bar = NoneId
    /\ gdata = <<>>
    /\ gkey = <<>>

\* The script before the first `def decode`, for every pair of strings and
\* every pair of keys.
Item24Init ==
    /\ gpc = "def_shared"
    /\ gversion = "unbound"
    /\ gdefault = NoneId
    /\ heap = <<>>
    /\ foo = NoneId
    /\ bar = NoneId
    /\ gdata \in [1 .. 2 -> Datas]
    /\ gkey \in [1 .. 2 -> DecodeKeys]

\* def decode(data, default={}): the `{}` is evaluated now, once.
DefShared ==
    /\ gpc = "def_shared"
    /\ LET d == NewDict(heap, EmptyDict)
       IN  /\ heap' = d.heap
           /\ gdefault' = d.ret
    /\ gversion' = "shared"
    /\ gpc' = "foo"
    /\ UNCHANGED <<foo, bar, gdata, gkey>>
    /\ UNCHANGED others24

\* def decode(data, default=None)
DefNone ==
    /\ gpc = "def_none"
    /\ gdefault' = NoneId
    /\ gversion' = "none"
    /\ gpc' = "foo"
    /\ UNCHANGED <<heap, foo, bar, gdata, gkey>>
    /\ UNCHANGED others24

\* decode(data) with no default passed: the stored default is used.
CallDecode(data) ==
    IF gversion = "shared" THEN decode_shared_default(heap, data, gdefault)
    ELSE decode(heap, data, gdefault)

\* foo = decode('bad data')
AssignFoo ==
    /\ gpc = "foo"
    /\ LET r == CallDecode(gdata[1])
       IN  /\ heap' = r.heap
           /\ foo' = r.ret
    /\ gpc' = "foo_write"
    /\ UNCHANGED <<gversion, gdefault, bar, gdata, gkey>>
    /\ UNCHANGED others24

\* foo['stuff'] = 5
WriteFoo ==
    /\ gpc = "foo_write"
    /\ heap' = [heap EXCEPT ![foo] = SetItem(@, gkey[1], 5)]
    /\ gpc' = "bar"
    /\ UNCHANGED <<gversion, gdefault, foo, bar, gdata, gkey>>
    /\ UNCHANGED others24

\* bar = decode('also bad')
AssignBar ==
    /\ gpc = "bar"
    /\ LET r == CallDecode(gdata[2])
       IN  /\ heap' = r.heap
           /\ bar' = r.ret
    /\ gpc' = "bar_write"
    /\ UNCHANGED <<gversion, gdefault, foo, gdata, gkey>>
    /\ UNCHANGED others24

\* bar['meep'] = 1
WriteBar ==
    /\ gpc = "bar_write"
    /\ heap' = [heap EXCEPT ![bar] = SetItem(@, gkey[2], 1)]
    /\ gpc' = IF gversion = "shared" THEN "def_none" ELSE "assert"
    /\ UNCHANGED <<gversion, gdefault, foo, bar, gdata, gkey>>
    /\ UNCHANGED others24

\* assert foo is not bar
AssertNotSame ==
    /\ gpc = "assert"
    /\ gpc' = IF foo # bar THEN "done" ELSE "AssertionError"
    /\ UNCHANGED <<gversion, gdefault, heap, foo, bar, gdata, gkey>>
    /\ UNCHANGED others24

Item24Next ==
    \/ DefShared
    \/ AssignFoo
    \/ WriteFoo
    \/ AssignBar
    \/ WriteBar
    \/ DefNone
    \/ AssertNotSame

(***************************************************************************)
(* Item 25: Enforce Clarity with Keyword-Only and Positional-Only          *)
(* Arguments                                                               *)
(***************************************************************************)
\* Largest magnitude an int may have to be converted to float
\* (sys.float_info.max, about 1.8e308, in the script), bounded.
FloatMax == 3

\* Largest number of positional arguments passed in a call.
MaxPositional == 4

\* The values passed positionally: 0 (also False), 1 (also 1.0 and True)
\* and an int too large for a float (10**500 in the script).
ArgValues == {0, 1, FloatMax + 1}

\* def safe_division_c(number, divisor, *, ignore_overflow,
\*                     ignore_zero_division): the parameters before the
\* `*` and those after it; none has a default value.
PositionalParams == <<"number", "divisor">>
KeywordOnlyParams == {"ignore_overflow", "ignore_zero_division"}

\* float('inf') and the int 0.
Inf == [type |-> "float", num |-> 1, den |-> 0]
Zero == [type |-> "int", num |-> 0, den |-> 1]

\* number / divisor with a float number: OverflowError when the int
\* divisor cannot be converted to float, ZeroDivisionError for 0.
FloatDiv(number, divisor) ==
    IF Abs(divisor) > FloatMax
    THEN Raise("OverflowError", "int too large to convert to float")
    ELSE TrueDiv(number, divisor)

\* The body of safe_division_c.
safe_division_c_body(number, divisor, ignore_overflow, ignore_zero_division) ==
    LET r == FloatDiv(number, divisor)
    IN  IF r.exc = "OverflowError"
        THEN IF ignore_overflow THEN Return(Zero) ELSE r
        ELSE IF r.exc = "ZeroDivisionError"
        THEN IF ignore_zero_division THEN Return(Inf) ELSE r
        ELSE r

\* The call safe_division_c(*pos, **kw): the arguments are bound to the
\* parameters, then the body runs.  A call with more positional arguments
\* than parameters before the `*`, with fewer, or without a keyword-only
\* parameter (none has a default) raises TypeError.
safe_division_c(pos, kw) ==
    IF Len(pos) > Len(PositionalParams)
    THEN Raise("TypeError", "takes 2 positional arguments but more were given")
    ELSE IF Len(pos) < Len(PositionalParams)
    THEN Raise("TypeError", "missing required positional argument")
    ELSE IF KeywordOnlyParams \ DOMAIN kw # {}
    THEN Raise("TypeError", "missing required keyword-only argument")
    ELSE safe_division_c_body(pos[1], pos[2], kw["ignore_overflow"],
                              kw["ignore_zero_division"])

RECURSIVE ArgLists(_)
ArgLists(n) ==
    IF n = 0 THEN {<<>>}
    ELSE LET shorter == ArgLists(n - 1)
         IN  shorter \cup {Append(s, v) : s \in {x \in shorter : Len(x) = n - 1},
                                          v \in ArgValues}

Item25Idle ==
    /\ spc = "idle"
    /\ spos = <<>>
    /\ skw = EmptyDict
    /\ sret = NoOutcome

\* Every call: up to MaxPositional positional arguments, and any of the two
\* keywords, each True or False.
Item25Init ==
    /\ spc = "input"
    /\ spos \in ArgLists(MaxPositional)
    /\ skw \in UNION {[S -> BOOLEAN] : S \in SUBSET KeywordOnlyParams}
    /\ sret = NoOutcome

\* safe_division_c(...)
CallSafeDivisionC ==
    /\ spc = "input"
    /\ sret' = safe_division_c(spos, skw)
    /\ spc' = "called"
    /\ UNCHANGED <<spos, skw>>
    /\ UNCHANGED others25

Item25Next ==
    \/ CallSafeDivisionC

(***************************************************************************)
(* Item 39: Use @classmethod Polymorphism to Construct Objects Generically *)
(* (the MapReduce example: LineCountWorker and execute)                    *)
(***************************************************************************)
\* Largest length of the list `workers` (100 files in the script).
MaxWorkers == 3

\* Largest number of lines in a file (random.randint(0, 100) in the script).
MaxLines == 2

WorkerIds == 1 .. MaxWorkers

\* f.write('\n' * random.randint(0, 100)): a file is a run of newlines.
Files == {[i \in 1 .. k |-> "\n"] : k \in 0 .. MaxLines}

\* data.count('\n')
RECURSIVE count(_, _)
count(data, ch) ==
    IF data = <<>> THEN 0
    ELSE (IF Head(data) = ch THEN 1 ELSE 0) + count(Tail(data), ch)

\* Variant of the join test that lets the caller go on at once.
ThreadJoinedAtOnce(w) == TRUE

\* thread.join() returns once the thread's target has returned.
ThreadJoined(w) == xtpc[w] = "done"

\* LineCountWorker.reduce: self.result += other.result; the sum of an int
\* and None raises TypeError.
reduce(self, other) ==
    IF self = <<>> \/ other = <<>> THEN [exc |-> "TypeError", result |-> self]
    ELSE [exc |-> "", result |-> <<self[1] + other[1]>>]

Item39Idle ==
    /\ xpc = "idle"
    /\ xi = 0
    /\ workers = 0
    /\ xfile = [w \in WorkerIds |-> <<>>]
    /\ xtpc = [w \in WorkerIds |-> "unborn"]
    /\ xdata = [w \in WorkerIds |-> <<>>]
    /\ xresult = [w \in WorkerIds |-> <<>>]
    /\ xret = <<>>

\* execute(workers) is called with a list of 0 .. MaxWorkers workers fresh
\* from create_workers (result is None), each with a file of its own.
Item39Init ==
    /\ xpc = "start"
    /\ xi = 0
    /\ workers \in 0 .. MaxWorkers
    /\ xfile \in [WorkerIds -> Files]
    /\ \A w \in WorkerIds : w > workers => xfile[w] = <<>>
    /\ xtpc = [w \in WorkerIds |-> "unborn"]
    /\ xdata = [w \in WorkerIds |-> <<>>]
    /\ xresult = [w \in WorkerIds |-> <<>>]
    /\ xret = <<>>

\* threads = [Thread(target=w.map) for w in workers]
\* for thread in threads: thread.start()
ExecuteStart ==
    /\ xpc = "start"
    /\ xi < workers
    /\ xtpc' = [xtpc EXCEPT ![xi + 1] = "read"]
    /\ xi' = xi + 1
    /\ UNCHANGED <<xpc, workers, xfile, xdata, xresult, xret>>
    /\ UNCHANGED others39

ExecuteStartDone ==
    /\ xpc = "start"
    /\ xi = workers
    /\ xpc' = "join"
    /\ xi' = 0
    /\ UNCHANGED <<workers, xfile, xtpc, xdata, xresult, xret>>
    /\ UNCHANGED others39

\* for thread in threads: thread.join()
ExecuteJoin ==
    /\ xpc = "join"
    /\ xi < workers
    /\ ThreadJoined(xi + 1)
    /\ xi' = xi + 1
    /\ UNCHANGED <<xpc, workers, xfile, xtpc, xdata, xresult, xret>>
    /\ UNCHANGED others39

ExecuteJoinDone ==
    /\ xpc = "join"
    /\ xi = workers
    /\ xpc' = "unpack"
    /\ xi' = 0
    /\ UNCHANGED <<workers, xfile, xtpc, xdata, xresult, xret>>
    /\ UNCHANGED others39

\* first, *rest = workers: ValueError for an empty list.
ExecuteUnpack ==
    /\ xpc = "unpack"
    /\ xpc' = IF workers = 0 THEN "ValueError" ELSE "reduce"
    /\ xi' = IF workers = 0 THEN 0 ELSE 1
    /\ UNCHANGED <<workers, xfile, xtpc, xdata, xresult, xret>>
    /\ UNCHANGED others39

\* for worker in rest: first.reduce(worker)
ExecuteReduce ==
    /\ xpc = "reduce"
    /\ xi < workers
    /\ LET r == reduce(xresult[1], xresult[xi + 1])
       IN  /\ xresult' = [xresult EXCEPT ![1] = r.result]
           /\ xpc' = IF r.exc = "" THEN "reduce" ELSE r.exc
    /\ xi' = xi + 1
    /\ UNCHANGED <<workers, xfile, xtpc, xdata, xret>>
    /\ UNCHANGED others39

\* return first.result
ExecuteReturn ==
    /\ xpc = "reduce"
    /\ xi = workers
    /\ xret' = xresult[1]
    /\ xpc' = "done"
    /\ UNCHANGED <<xi, workers, xfile, xtpc, xdata, xresult>>
    /\ UNCHANGED others39

\* LineCountWorker.map in the thread of worker w:
\* data = self.input_data.read()
MapRead(w) ==
    /\ xtpc[w] = "read"
    /\ xdata' = [xdata EXCEPT ![w] = <<xfile[w]>>]
    /\ xtpc' = [xtpc EXCEPT ![w] = "count"]
    /\ UNCHANGED <<xpc, xi, workers, xfile, xresult, xret>>
    /\ UNCHANGED others39

\* self.result = data.count('\n')
MapStore(w) ==
    /\ xtpc[w] = "count"
    /\ xresult' = [xresult EXCEPT ![w] = <<count(xdata[w][1], "\n")>>]
    /\ xtpc' = [xtpc EXCEPT ![w] = "done"]
    /\ UNCHANGED <<xpc, xi, workers, xfile, xdata, xret>>
    /\ UNCHANGED others39

Item39Next ==
    \/ ExecuteStart
    \/ ExecuteStartDone
    \/ ExecuteJoin
    \/ ExecuteJoinDone
    \/ ExecuteUnpack
    \/ ExecuteReduce
    \/ ExecuteReturn
    \/ \E w \in WorkerIds : MapRead(w)
    \/ \E w \in WorkerIds : MapStore(w)

(***************************************************************************)
(* Specifications                                                          *)
(***************************************************************************)

Item54Idle == Item54Init

\* Each example starts from its own initial state, the others idle.
Init54 == Item54Init /\ Item52Idle /\ Item20Idle /\ Item44Idle /\ Item38Idle /\ Item24Idle /\ Item25Idle /\ Item39Idle
Init52 == Item52Init /\ Item54Idle /\ Item20Idle /\ Item44Idle /\ Item38Idle /\ Item24Idle /\ Item25Idle /\ Item39Idle
Init20 == Item20Init /\ Item54Idle /\ Item52Idle /\ Item44Idle /\ Item38Idle /\ Item24Idle /\ Item25Idle /\ Item39Idle
Init44 == Item44Init /\ Item54Idle /\ Item52Idle /\ Item20Idle /\ Item38Idle /\ Item24Idle /\ Item25Idle /\ Item39Idle
Init38 == Item38Init /\ Item54Idle /\ Item52Idle /\ Item20Idle /\ Item44Idle /\ Item24Idle /\ Item25Idle /\ Item39Idle
Init24 == Item24Init /\ Item54Idle /\ Item52Idle /\ Item20Idle /\ Item44Idle /\ Item38Idle /\ Item25Idle /\ Item39Idle
Init25 == Item25Init /\ Item54Idle /\ Item52Idle /\ Item20Idle /\ Item44Idle /\ Item38Idle /\ Item24Idle /\ Item39Idle
InitBucket == Item44Init /\ Item54Idle /\ Item52Idle /\ Item20Idle /\ Item38Idle /\ Item24Idle /\ Item25Idle /\ Item39Idle
Init39 == Item39Init /\ Item54Idle /\ Item52Idle /\ Item20Idle /\ Item44Idle /\ Item38Idle /\ Item24Idle /\ Item25Idle

\* Item 54: the Counter run, the illustration, the LockingCounter run.
SpecItem54 == Init54 /\ [][Item54Next]_vars

\* Item 52: the pipeline and the timeout demo, under the scheduling the
\* operating system gives the processes.
SpecItem52 == Init52 /\ [][Item52Next]_vars /\ Item52Fairness

\* Item 20: both careful_divide definitions on every pair of arguments.
SpecItem20 == Init20 /\ [][Item20Next]_vars

\* Item 44: a Bucket and a NewBucket driven by the same calls.
SpecItem44 == Init44 /\ [][Item44Next]_vars

\* Item 44: the Bucket alone, under any calls of fill and deduct.
SpecBucket == InitBucket /\ [][BucketNext]_vars

\* Item 38: the three ways of counting missing keys on the same inputs.
SpecItem38 == Init38 /\ [][Item38Next]_vars

\* Item 24: the script with both definitions of decode, on every input.
SpecItem24 == Init24 /\ [][Item24Next]_vars

\* Item 25: safe_division_c on every call.
SpecItem25 == Init25 /\ [][Item25Next]_vars

\* Item 39: execute(workers) on every list of workers, the map threads
\* interleaved in every way.
SpecItem39 == Init39 /\ [][Item39Next]_vars

(***************************************************************************)
(* Properties                                                              *)
(***************************************************************************)

\* The worker threads past BARRIER.wait(): inside the loop or over.
PastBarrier(t) == tpc[t] \in {"acquire", "read", "add", "write", "release", "done"}

\* The worker threads that have called BARRIER.wait().
ReachedBarrier(t) == tpc[t] \notin {"unborn", "barrier"}

\* The worker threads inside `with self.lock:`.
InWith(t) == tpc[t] \in {"read", "add", "write", "release"}

\* The worker threads between the load of self.count and its store.
BetweenLoadAndStore(t) == tpc[t] \in {"add", "write"}

RECURSIVE SumTn(_)
SumTn(S) == IF S = {} THEN 0
            ELSE LET t == CHOOSE x \in S : TRUE IN tn[t] + SumTn(S \ {t})

\* C1: with LockingCounter no increment is lost in any interleaving: the
\* count is always the number of increments stored so far (those that have
\* returned, plus the one stored by the thread about to release the lock),
\* and once the main thread has joined the workers the count it reads is
\* 5 * how_many.
C1_LockedCountIsExpected ==
    /\ counter.class = "LockingCounter" =>
           counter.count = SumTn(RunWorkers)
                           + Cardinality({t \in RunWorkers : tpc[t] = "release"})
    /\ mpc = "end" =>
           /\ found = NumWorkers * how_many
           /\ found = expected
           /\ counter.count = found

\* C1 witness: the LockingCounter run is over, after all of its workers
\* made their how_many increments.
C1_Witness ==
    /\ mpc = "end"
    /\ counter.class = "LockingCounter"
    /\ \A t \in RunWorkers : tpc[t] = "done" /\ tn[t] = how_many
    /\ found = NumWorkers * how_many

\* C2: the lock serializes the increments of a LockingCounter: the thread
\* holding the lock is the one thread inside the with block, so at most one
\* thread is between the load and the store of self.count, and a thread
\* whose increment has returned no longer holds the lock (it is free again
\* when no thread is inside increment).
C2_LockSerializes ==
    counter.class = "LockingCounter" =>
        /\ \A t \in Threads : InWith(t) <=> counter.lock = t
        /\ Cardinality({t \in Threads : BetweenLoadAndStore(t)}) <= 1
        /\ (\A t \in Threads : ~InWith(t)) => counter.lock = NoThread

\* C2 witness: one thread is about to store inside the with block while
\* another one is blocked on the lock and a third has already returned
\* from its last increment.
C2_Witness ==
    /\ counter.class = "LockingCounter"
    /\ \E t, u, v \in RunWorkers :
          /\ tpc[t] = "write" /\ counter.lock = t
          /\ tpc[u] = "acquire"
          /\ tpc[v] = "done" /\ tn[v] = how_many

\* C3: the unlocked increment is a load, an add and a store, so updates
\* can be lost but never invented: the count never exceeds the number of
\* increments that have returned, the count found after the 5 workers of
\* the Counter run are joined is at least 1 and at most 5 * how_many (the
\* witness is a run where it is less), and the two increments of the
\* hand-written interleaving of "Thread A" and "Thread B" raise the count
\* by 1 only (after `counter.count += 1` and the three explicit operations
\* the count is found + 3, not found + 4).
C3_UnlockedLosesUpdates ==
    /\ (counter.class = "Counter" /\ mpc \in {"start", "join"}) =>
           counter.count <= SumTn(RunWorkers)
    /\ mpc \in {"augmented", "three_ops", "illustration", "rebind"} =>
           /\ expected = NumWorkers * how_many
           /\ 1 <= found /\ found <= expected
    /\ mpc = "illustration" => counter.count = found + 2
    /\ mpc = "rebind" => counter.count = found + 3

\* C3 witness: all 5 workers of the Counter run are over and the count
\* found is less than expected.
C3_Witness ==
    /\ mpc = "augmented"
    /\ \A t \in RunWorkers : tpc[t] = "done" /\ tn[t] = how_many
    /\ found < expected

\* C4: no worker performs its first counter.increment (or anything after
\* BARRIER.wait()) before all 5 workers of its run have reached
\* BARRIER.wait().
C4_BarrierBeforeCounting ==
    \A t \in RunWorkers :
        PastBarrier(t) => \A u \in RunWorkers : ReachedBarrier(u)

\* C4 witness: a worker is at the load of its first increment while
\* another one is still inside BARRIER.wait().
C4_Witness ==
    \E t, u \in RunWorkers :
        /\ tpc[t] = "read" /\ tn[t] = 0
        /\ tpc[u] = "waiting"

\* The pipeline is over: every child has exited with returncode 0, the
\* parent has read every digest and is past both communicate loops.
PipelineDone ==
    /\ ppc \in {"popen_sleep", "communicate", "terminate", "wait", "poll", "end"}
    /\ \A k \in Pairs :
          /\ encrypt_procs[k].st = "exited" /\ encrypt_procs[k].rc = 0
          /\ hash_procs[k].st = "exited" /\ hash_procs[k].rc = 0
          /\ out[k] = DigestLen

\* C5: the parent never blocks forever on the child of the timeout demo:
\* from proc.communicate(timeout=0.1) it always gets to the final
\* proc.poll() and past it, also when the child never ends by itself; it
\* only waits for a child that is over or has been sent SIGTERM; and by
\* the final proc.poll() the child has exited and poll() is not None.
C5_TimeoutEndsHangingChild ==
    /\ [](ppc = "wait" => (sleeper.st = "exited" \/ sleeper.sigterm))
    /\ [](ppc \in {"poll", "end"} => sleeper.st = "exited")
    /\ [](ppc = "end" => returncode # <<>>)
    /\ (ppc = "communicate" ~> ppc = "end")

\* C5 witness: the child outlived the timeout, was terminated and waited
\* for, and the final poll() reports its death by SIGTERM.
C5_Witness ==
    /\ ppc = "end"
    /\ timer = "expired"
    /\ sleeper.st = "exited"
    /\ returncode = <<SIGTERM>>

\* C6: in the encrypt-then-hash pipeline no assert on a returncode fails
\* and the parent gets through both communicate loops: every encrypt
\* child and every hash child eventually exits with returncode 0 (no
\* deadlock over the pipes).
C6_PipelineTerminates ==
    /\ [](ppc # "AssertionError")
    /\ <>PipelineDone

\* C6 witness: the parent is inside communicate() on the first encrypt
\* child, which is still to see the end of its stdin, while the hash child
\* of the third pair is running.
C6_Witness ==
    /\ ppc = "wait_encrypt"
    /\ pk = 0
    /\ encrypt_procs[1].st = "running"
    /\ ~encrypt_procs[1].eof
    /\ hash_procs[NumPairs].st = "running"

\* C7: the exception-raising careful_divide(a, b) never returns None: it
\* raises ValueError('Invalid inputs') exactly when b == 0 and otherwise
\* returns the float a / b, which is 0 for a == 0.
C7_CarefulDivideNeverNone ==
    dpc = "called" =>
        /\ ~(dret.kind = "return" /\ dret.value.type = "NoneType")
        /\ db = 0 => dret = Raise("ValueError", "Invalid inputs")
        /\ db # 0 =>
              /\ dret.kind = "return"
              /\ dret.value.type = "float"
              /\ dret.value.den > 0
              /\ dret.value.num * db = da * dret.value.den
              /\ (da = 0 <=> dret.value.num = 0)

\* C7 witness: a call with a == 0 and b != 0 has returned the float 0,
\* which the None version's caller takes for invalid inputs.
C7_Witness ==
    /\ dpc = "called"
    /\ da = 0
    /\ db # 0
    /\ dret.kind = "return"
    /\ dret.value = [type |-> "float", num |-> 0, den |-> 1]
    /\ Not(dnone.value)

\* C8 (as claimed): inside the first period, after every call the NewBucket
\* has returned what the Bucket returned and exposes the same quota.
C8_NewBucketSameAsBucket ==
    now <= Period =>
        /\ nret = bret
        /\ GetQuota(newbucket) = GetQuota(bucket)

\* C9 (as claimed): no call of fill or deduct makes an assertion of the
\* NewBucket.quota setter fail.
C9_SetterAssertionsHold == nret.exc = ""

\* The keys of `increments`.
IncrementKeys == {increments[i][1] : i \in 1 .. Len(increments)}

\* C10: the three ways of counting report the same number, the number of
\* distinct keys of the increments that are absent from current.
C10_MissingCountsAgree ==
    kpc = "end" =>
        /\ added_count = counter_added
        /\ counter_added = better_added
        /\ better_added = Cardinality(IncrementKeys \ DOMAIN current)

\* C10 witness: a missing key occurs twice in the increments, next to a
\* key that current has, and is counted once.
C10_Witness ==
    /\ kpc = "end"
    /\ Len(increments) = 3
    /\ increments[1][1] = increments[3][1]
    /\ increments[1][1] \notin DOMAIN current
    /\ increments[2][1] \in DOMAIN current
    /\ added_count = 1

\* Both strings passed as `data` fail to parse.
BothFailToParse == \A i \in 1 .. 2 : ~json_loads(gdata[i]).ok

\* C11: with decode(data, default=None), two calls that both fail to parse
\* and pass no default return distinct dictionaries, and a key written into
\* the result of one call does not appear in the result of the other: foo
\* holds only the key written into foo, bar only the key written into bar.
\* With default={} both calls return the same dictionary, which holds both
\* keys.
C11_DistinctDictionaries ==
    BothFailToParse =>
        /\ (gversion = "none" /\ gpc = "bar_write") =>
               /\ foo # bar
               /\ DOMAIN heap[foo] = {gkey[1]}
               /\ DOMAIN heap[bar] = {}
        /\ (gversion = "none" /\ gpc \in {"assert", "done", "AssertionError"}) =>
               /\ foo # bar
               /\ DOMAIN heap[foo] = {gkey[1]}
               /\ DOMAIN heap[bar] = {gkey[2]}
               /\ gpc # "AssertionError"
        /\ (gversion = "shared" /\ gpc = "def_none") =>
               /\ foo = bar
               /\ DOMAIN heap[foo] = {gkey[1], gkey[2]}

C11_Witness ==
    /\ BothFailToParse
    /\ gversion = "none"
    /\ gpc = "done"
    /\ gkey[1] # gkey[2]
    /\ heap[foo][gkey[1]] = 5

\* C12: the call safe_division_c(1.0, 0, ignore_zero_division=True), with
\* two positional arguments and only the ignore_zero_division keyword,
\* returns float('inf') instead of raising.
C12_OnlyZeroDivisionKeywordWorks ==
    (/\ spc = "called"
     /\ spos = <<1, 0>>
     /\ DOMAIN skw = {"ignore_zero_division"}
     /\ skw["ignore_zero_division"])
        => sret = Return(Inf)

\* C13: a deduct(bucket, amount) call that returns False (period expired,
\* or quota - amount < 0) leaves the bucket unchanged: quota and reset_time
\* are the same before and after the call.
C13_FailedDeductChangesNothing ==
    [][(/\ bcall'.op = "deduct"
        /\ bret'.ret = "False"
        /\ now' = now)
           => /\ bucket'.quota = bucket.quota
              /\ bucket'.reset_time = bucket.reset_time]_vars

\* A deduct has returned False on a bucket that holds quota, inside the
\* period.
C13_Witness ==
    /\ bcall.op = "deduct"
    /\ bret.ret = "False"
    /\ bucket.quota > 0
    /\ bcall.amount > bucket.quota
    /\ (now - bucket.reset_time) <= bucket.period_delta

\* C14: for a Bucket that starts with quota 0, after any sequence of fill
\* and deduct calls with amounts >= 0 the quota is never negative, and a
\* deduct returns True only when the quota before the call was at least
\* the amount and the period had not expired.
C14_QuotaNeverNegative ==
    /\ [](bucket.quota >= 0)
    /\ [][(/\ bcall'.op = "deduct"
            /\ bret'.ret = "True"
            /\ now' = now)
               => /\ bucket.quota >= bcall'.amount
                  /\ (now - bucket.reset_time) <= bucket.period_delta]_vars

\* A deduct has returned True and used up the whole quota.
C14_Witness ==
    /\ bcall.op = "deduct"
    /\ bret.ret = "True"
    /\ bcall.amount > 0
    /\ bucket.quota = 0

\* C15: quota does not carry over from one period to the next: a
\* fill(bucket, amount) made more than period_delta after reset_time leaves
\* quota equal to amount and sets reset_time to the time of the call; a
\* fill inside the period adds amount to the quota and leaves reset_time
\* unchanged.
C15_FillResetsAfterPeriod ==
    [][(/\ bcall'.op = "fill"
        /\ now' = now)
           => IF (now - bucket.reset_time) > bucket.period_delta
              THEN /\ bucket'.quota = bcall'.amount
                   /\ bucket'.reset_time = now
              ELSE /\ bucket'.quota = bucket.quota + bcall'.amount
                   /\ bucket'.reset_time = bucket.reset_time]_vars

\* A fill has been made after the period was over: the bucket holds the
\* amount of that fill and its period starts at the time of the call.
C15_Witness ==
    /\ bcall.op = "fill"
    /\ bcall.amount > 0
    /\ now > 0
    /\ bucket.reset_time = now
    /\ bucket.quota = bcall.amount

\* The calling thread of execute is past the join loop.
AllJoined == xpc \in {"unpack", "reduce", "done", "ValueError", "TypeError"}

\* Sum of the results the map steps of workers 1 .. n compute.
RECURSIVE SumOfMapResults(_)
SumOfMapResults(n) ==
    IF n = 0 THEN 0 ELSE count(xfile[n], "\n") + SumOfMapResults(n - 1)

\* The step writes the result of worker w from w's own map thread.
WrittenByOwnMapThread(w) == xtpc[w] = "count" /\ xtpc'[w] = "done"

\* The step writes the result of worker w from a reduce call of the
\* calling thread, on the first worker.
WrittenByReduce(w) == w = 1 /\ xpc = "reduce" /\ xi' = xi + 1

\* No reduce call runs before every map thread has been joined, and for a
\* non-empty list of workers execute returns the sum of the results of all
\* the map steps.
ReduceAfterJoinsAndSum ==
    /\ AllJoined => \A w \in 1 .. workers : xtpc[w] = "done"
    /\ xpc # "TypeError"
    /\ (xpc = "done" /\ workers >= 1) => xret = <<SumOfMapResults(workers)>>

\* C16: in execute(workers), no reduce call runs before every map thread
\* has been joined; until then each worker's result is written only by its
\* own map thread, and afterwards only the first worker's result is written,
\* by the reduce calls of the calling thread; for a non-empty list the
\* returned value is the sum of the results the map steps computed, in
\* every interleaving of the map threads.
C16_ExecuteSumsMapResults ==
    /\ []ReduceAfterJoinsAndSum
    /\ [][\A w \in WorkerIds :
            xresult'[w] # xresult[w] =>
                \/ WrittenByOwnMapThread(w) /\ ~AllJoined
                \/ WrittenByReduce(w) /\ AllJoined]_vars

\* execute has returned for three workers, the result of the first having
\* been written by its map thread and then by reduce.
C16_Witness ==
    /\ xpc = "done"
    /\ workers = MaxWorkers
    /\ \A w \in 1 .. workers : xfile[w] # <<>>
    /\ xret = <<SumOfMapResults(workers)>>
    /\ xresult[1] # <<count(xfile[1], "\n")>>

\* C16 as first stated: every write of a worker's result, in the whole of
\* execute, is made by that worker's own map thread.
C16_OnlyMapThreadsWriteResults ==
    /\ []ReduceAfterJoinsAndSum
    /\ [][\A w \in WorkerIds :
            xresult'[w] # xresult[w] => WrittenByOwnMapThread(w)]_vars

====
